---- MODULE Spec2Model ----
(***************************************************************************)
(* Model of the Diagram widget of src/src/Diagram.js: the controller that  *)
(* turns a node/edge dataset into a layout request, applies the layout     *)
(* engine's asynchronous result to the DOM, and keeps the selection,       *)
(* highlight and click-versus-drag state.                                  *)
(*                                                                         *)
(* The DOM is modelled by what the code reads and writes of it: the list   *)
(* of node visuals in the overlay div (this._el), the list of path visuals *)
(* in the svg group (this._group), the size of the overlay and of the svg, *)
(* and which of the three mounted elements are still attached.             *)
(* The embedder calls render at most once and calls nothing after destroy; *)
(* node names are unique within a dataset and are valid CSS identifiers.   *)
(***************************************************************************)
EXTENDS Integers, Sequences, FiniteSets, TLC

VARIABLES
    elk,              \* this._elk: "undefined" until the constructor creates the engine
    container,        \* this._container: "null" once constructed, the target once rendered
    mounted,          \* which of svg / group / el are attached under the target
    el,               \* children of this._el: the node visuals, in document order
    paths,            \* path children of this._group: the edge visuals
    elSize,           \* style width / height of this._el
    svgSize,          \* width / height attributes of this._svg
    nodes,            \* this._nodes
    edges,            \* this._edges
    pending,          \* layout requests in flight (this._elk.layout(graph))
    selectedNodeName, \* this._selectedNodeName
    dragging,         \* this._dragging
    mouseDownBB,      \* this._mouseDownBB: <<>> while undefined, else <<rect>>
    observable,       \* this._observable: "alive" from construction to destroy()
    lastCall,         \* the operation of the last step and its argument
    thrown,           \* what the last step threw (<<>> when it returned)
    fired,            \* the events the last step fired through this._observable
    down,             \* history: the mousedown that no mouseup has followed yet
    overlapped        \* history: some setData was issued while a layout was in flight

lifeVars  == <<elk, container, observable>>
domVars   == <<mounted, el, paths, elSize, svgSize>>
dataVars  == <<nodes, edges, pending>>
interVars == <<selectedNodeName, dragging, mouseDownBB, down>>
vars == <<elk, container, mounted, el, paths, elSize, svgSize, nodes, edges, pending,
          selectedNodeName, dragging, mouseDownBB, observable,
          lastCall, thrown, fired, down, overlapped>>

----------------------------------------------------------------------------
(* Bounds of the model *)

MaxPending == 2
MaxPaths == 1
MaxGraphNodes == 3
MaxGraphEdges == 2

(* Fixed node box of the layout request *)
NodeWidth == 200
NodeHeight == 50

\* The nodes the embedder draws its datasets from, in the order it lists them
AllNodes == <<[name |-> "A"], [name |-> "B"]>>
Names == {AllNodes[i].name : i \in DOMAIN AllNodes}
EdgeTypes == {"arrow", "link", "dashed"}
RelatedTargets == {"null", "path", "div"}

\* The arguments of new Diagram(...): none, options without a worker URL, options with one
Options == {[given |-> FALSE, elkWorkerUrl |-> ""],
            [given |-> TRUE, elkWorkerUrl |-> ""],
            [given |-> TRUE, elkWorkerUrl |-> "elk-worker.js"]}

Min(a, b) == IF a < b THEN a ELSE b

\* A dataset lists the first node or the first two
NodeLists == {SubSeq(AllNodes, 1, k) : k \in 1..Len(AllNodes)}

\* A dataset of two nodes or more may hold edges, from its first to its last node
EdgeChoices(ns) ==
    IF Len(ns) < 2 THEN {}
    ELSE [start : {ns[1].name}, end : {ns[Len(ns)].name}, type : EdgeTypes]

\* Edge lists hold no edge or one edge
EdgeLists(ns) == {<<>>} \cup {<<e>> : e \in EdgeChoices(ns)}

DataSets == UNION {[nodes : {ns}, edges : EdgeLists(ns)] : ns \in NodeLists}

----------------------------------------------------------------------------
(* Numbers as JavaScript produces them here: a finite number or -Infinity *)

Num(n) == [inf |-> FALSE, n |-> n]
NegInfinity == [inf |-> TRUE, n |-> 0]

RECURSIVE SetMax(_)
SetMax(S) ==
    LET x == CHOOSE x \in S : TRUE
    IN  IF S = {x} THEN x
        ELSE LET m == SetMax(S \ {x}) IN IF x > m THEN x ELSE m

\* Math.max.apply(Math, list): -Infinity for the empty list
MathMax(S) == IF S = {} THEN NegInfinity ELSE Num(SetMax(S))

\* selection.style(name, v + "px"): an invalid length ("-Infinitypx") is dropped by
\* CSSStyleDeclaration.setProperty and the old value stays
StylePx(old, v) == IF v.inf THEN old ELSE <<v.n, "px">>

\* selection.attr(name, v): the attribute holds the value as given
Attr(v) == <<v>>

----------------------------------------------------------------------------
(* Graph-request construction *)

GetRootProperties == [algorithm |-> "layered", direction |-> "RIGHT"]

\* _getElkGraph numbering the edge ids from one
GetElkGraphCountingFromOne(ns, es) ==
    [id |-> "root",
     properties |-> GetRootProperties,
     children |-> [i \in 1..Len(ns) |->
                     [id |-> ns[i].name, width |-> NodeWidth, height |-> NodeHeight]],
     edges |-> [i \in 1..Len(es) |->
                     [id |-> <<"edge_", i>>,
                      sources |-> <<es[i].start>>,
                      targets |-> <<es[i].end>>]]]

(* _getElkGraph(), of this._nodes = ns and this._edges = es; the id "edge_" + index is *)
(* kept as the pair of its prefix and the zero-based index                            *)
GetElkGraph(ns, es) ==
    [id |-> "root",
     properties |-> GetRootProperties,
     children |-> [i \in 1..Len(ns) |->
                     [id |-> ns[i].name, width |-> NodeWidth, height |-> NodeHeight]],
     edges |-> [i \in 1..Len(es) |->
                     [id |-> <<"edge_", i - 1>>,
                      sources |-> <<es[i].start>>,
                      targets |-> <<es[i].end>>]]]

\* The layout engine's answer to a request: every child keeps its id and size and
\* gets a position, every edge gets one routed section, both in request order. The
\* engine is a black box that answers one request always the same way; it is
\* modelled by the placement that steps the children down a diagonal from the right,
\* so that the rightmost box and the lowest box are different children and a node's
\* position depends on the dataset it is laid out with.
Placement(graph) ==
    [children |-> [i \in 1..Len(graph.children) |->
                      [id |-> graph.children[i].id,
                       x |-> Len(graph.children) - i,
                       y |-> i - 1,
                       width |-> graph.children[i].width,
                       height |-> graph.children[i].height]],
     edges |-> [i \in 1..Len(graph.edges) |->
                      [id |-> graph.edges[i].id,
                       sections |-> <<[startPoint |-> graph.edges[i].sources[1],
                                       endPoint |-> graph.edges[i].targets[1]]>>]]]

LayoutResults(graph) == {Placement(graph)}

----------------------------------------------------------------------------
(* The document, as the code's global lookups see it *)

\* The node visuals that are in the document: the overlay's children while the
\* overlay is attached
Doc == IF mounted.el THEN el ELSE <<>>

\* document.getElementById(name) / d3.select("#" + name): index of the first element
\* with that id, 0 when there is none
ElementById(doc, name) ==
    IF \E i \in DOMAIN doc : doc[i].id = name
    THEN CHOOSE i \in DOMAIN doc : doc[i].id = name /\ \A j \in 1..(i - 1) : doc[j].id # name
    ELSE 0

\* d3.select("." + selectedClass): index of the first element carrying the class
FirstSelected(doc) ==
    IF \E i \in DOMAIN doc : doc[i].selected
    THEN CHOOSE i \in DOMAIN doc : doc[i].selected /\ \A j \in 1..(i - 1) : ~doc[j].selected
    ELSE 0

\* d3.select("." + highlightedClass)
FirstHighlighted(doc) ==
    IF \E i \in DOMAIN doc : doc[i].highlighted
    THEN CHOOSE i \in DOMAIN doc : doc[i].highlighted /\ \A j \in 1..(i - 1) : ~doc[j].highlighted
    ELSE 0

\* d3.select("." + selectedClass).classed(selectedClass, false)
UnselectFirst(doc) ==
    LET i == FirstSelected(doc)
    IN  IF i = 0 THEN doc ELSE [doc EXCEPT ![i].selected = FALSE]

\* d3.select("." + highlightedClass).classed(highlightedClass, false)
UnhighlightFirst(doc) ==
    LET i == FirstHighlighted(doc)
    IN  IF i = 0 THEN doc ELSE [doc EXCEPT ![i].highlighted = FALSE]

\* getBoundingClientRect() of the element with that id: its styled offset (the page
\* does not scroll and nothing but the widget moves its elements)
BoundingClientRect(doc, name) ==
    LET v == doc[ElementById(doc, name)]
    IN  [top |-> v.top, left |-> v.left]

Truthy(flag) == flag = "true"

\* The record of a step: the operation, its node name and flag arguments, and the tag
\* of the pointer event's relatedTarget. For a mouseup, flag tells whether it closes a
\* mousedown on its own node and info whether that node's box is where it was then.
\* For the completion of a layout request, info tells how the handle that setData
\* returned for the request is settled.
Call(op, name, flag, info) == [op |-> op, name |-> name, flag |-> flag, info |-> info]
NoCall == Call("init", "", FALSE, "null")

\* History of the pointer button: the node and bounding box of a mousedown that no
\* mouseup has followed yet
NoDown == [name |-> "", top |-> 0, left |-> 0]

NoError == <<>>
TypeError == <<"TypeError">>
NoWorkerUrlError == <<"ELK worker URL has to be specified">>
NotRenderedError == <<"Diagram is not rendered">>
NoNodeError(name) == <<"Node ", name, " doesn't exist or graph hasn't been rendered yet">>

RemoveAt(s, i) == [k \in 1..(Len(s) - 1) |-> IF k < i THEN s[k] ELSE s[k + 1]]

----------------------------------------------------------------------------
Init ==
    /\ elk = "undefined"
    /\ container = "undefined"
    /\ observable = "undefined"
    /\ mounted = [svg |-> FALSE, group |-> FALSE, el |-> FALSE]
    /\ el = <<>>
    /\ paths = <<>>
    /\ elSize = [width |-> <<>>, height |-> <<>>]
    /\ svgSize = [width |-> <<>>, height |-> <<>>]
    /\ nodes = <<>>
    /\ edges = <<>>
    /\ pending = <<>>
    /\ selectedNodeName = "undefined"
    /\ dragging = "undefined"
    /\ mouseDownBB = <<>>
    /\ down = NoDown
    /\ overlapped = FALSE
    /\ lastCall = NoCall
    /\ thrown = NoError
    /\ fired = <<>>

(* new Diagram(options) *)
Constructor(options) ==
    /\ observable' = "alive"
    /\ IF ~options.given
       THEN /\ thrown' = TypeError          \* options.elkWorkerUrl of undefined
            /\ UNCHANGED <<elk, container>>
       ELSE IF options.elkWorkerUrl = ""
       THEN /\ thrown' = NoWorkerUrlError
            /\ UNCHANGED <<elk, container>>
       ELSE /\ thrown' = NoError
            /\ elk' = "created"
            /\ container' = "null"
    /\ lastCall' = Call("constructor", "", FALSE, "null")
    /\ fired' = <<>>
    /\ UNCHANGED <<domVars, dataVars, interVars, overlapped>>

(* render(selector) *)
Render ==
    /\ container' = "target"
    /\ mounted' = [svg |-> TRUE, group |-> TRUE, el |-> TRUE]
    /\ el' = <<>>
    /\ paths' = <<>>
    /\ elSize' = [width |-> <<>>, height |-> <<>>]
    /\ svgSize' = [width |-> <<>>, height |-> <<>>]
    /\ lastCall' = Call("render", "", FALSE, "null")
    /\ thrown' = NoError
    /\ fired' = <<>>
    /\ UNCHANGED <<elk, observable, dataVars, interVars, overlapped>>

(* destroy() *)
Destroy ==
    /\ observable' = "destroyed"
    /\ IF container # "target"
       THEN /\ thrown' = TypeError          \* this._el is undefined
            /\ UNCHANGED mounted
       ELSE /\ thrown' = NoError
            /\ mounted' = [mounted EXCEPT !.el = FALSE, !.group = FALSE]
    /\ lastCall' = Call("destroy", "", FALSE, "null")
    /\ fired' = <<>>
    /\ UNCHANGED <<elk, container, el, paths, elSize, svgSize, dataVars, interVars,
                   overlapped>>

\* setData without the clearing of the overlay
SetDataKeepingVisuals(data) ==
    /\ lastCall' = Call("setData", "", FALSE, "null")
    /\ fired' = <<>>
    /\ IF container # "target"
       THEN /\ thrown' = NotRenderedError
            /\ UNCHANGED <<el, dataVars, overlapped>>
       ELSE /\ thrown' = NoError
            /\ UNCHANGED el
            /\ nodes' = data.nodes
            /\ edges' = data.edges
            /\ pending' = Append(pending, GetElkGraph(data.nodes, data.edges))
            /\ overlapped' = (overlapped \/ pending # <<>>)
    /\ UNCHANGED <<lifeVars, mounted, paths, elSize, svgSize, interVars>>

\* setData storing the lists before it looks at the container
SetDataStoringFirst(data) ==
    /\ lastCall' = Call("setData", "", FALSE, "null")
    /\ fired' = <<>>
    /\ nodes' = data.nodes
    /\ edges' = data.edges
    /\ IF container # "target"
       THEN /\ thrown' = NotRenderedError
            /\ UNCHANGED <<el, pending, overlapped>>
       ELSE /\ thrown' = NoError
            /\ el' = <<>>
            /\ pending' = Append(pending, GetElkGraph(data.nodes, data.edges))
            /\ overlapped' = (overlapped \/ pending # <<>>)
    /\ UNCHANGED <<lifeVars, mounted, paths, elSize, svgSize, interVars>>

\* setData dropping the requests still in flight when it issues its own
SetDataCancellingInFlight(data) ==
    /\ lastCall' = Call("setData", "", FALSE, "null")
    /\ fired' = <<>>
    /\ IF container # "target"
       THEN /\ thrown' = NotRenderedError
            /\ UNCHANGED <<el, dataVars, overlapped>>
       ELSE /\ thrown' = NoError
            /\ el' = <<>>
            /\ nodes' = data.nodes
            /\ edges' = data.edges
            /\ pending' = <<GetElkGraph(data.nodes, data.edges)>>
            /\ overlapped' = (overlapped \/ pending # <<>>)
    /\ UNCHANGED <<lifeVars, mounted, paths, elSize, svgSize, interVars>>

(* setData(data) *)
SetData(data) ==
    /\ lastCall' = Call("setData", "", FALSE, "null")
    /\ fired' = <<>>
    /\ IF container # "target"
       THEN /\ thrown' = NotRenderedError
            /\ UNCHANGED <<el, dataVars, overlapped>>
       ELSE /\ thrown' = NoError
            /\ el' = <<>>
            /\ nodes' = data.nodes
            /\ edges' = data.edges
            /\ pending' = Append(pending, GetElkGraph(data.nodes, data.edges))
            /\ overlapped' = (overlapped \/ pending # <<>>)
    /\ UNCHANGED <<lifeVars, mounted, paths, elSize, svgSize, interVars>>

----------------------------------------------------------------------------
(* Layout-result consumption *)

\* _renderNode(node, styles): the div appended to this._el
RenderNode(node, child) ==
    [id |-> node.name,
     top |-> child.y, left |-> child.x, width |-> child.width, height |-> child.height,
     selected |-> FALSE, highlighted |-> FALSE]

\* The forEach of _renderNodes: node k is drawn from layout.children[k]; reading a
\* child the layout does not have throws, after the nodes before it were drawn
NodesDrawn(ns, layout) ==
    [k \in 1..Min(Len(ns), Len(layout.children)) |-> RenderNode(ns[k], layout.children[k])]

NodesThrow(ns, layout) == Len(ns) > Len(layout.children)

\* The "d" attribute built from sections[0]: start point, then end point
PathD(section) == <<"M", section.startPoint, "L", section.endPoint>>

\* The path of an edge, with the marker on every edge that is not a plain link
RenderEdgeMarkingNonLinks(edge, layoutEdge) ==
    [d |-> PathD(layoutEdge.sections[1]), marker |-> (edge.type # "link")]

\* The path appended for one edge
RenderEdge(edge, layoutEdge) ==
    [d |-> PathD(layoutEdge.sections[1]), marker |-> (edge.type = "arrow")]

\* _renderEdges(layout): edge k is drawn from layout.edges[k]; for an edge the layout
\* does not have, the path is appended and the computation of "d" throws
RenderEdges(es, layout) ==
    [k \in 1..Min(Len(es), Len(layout.edges)) |-> RenderEdge(es[k], layout.edges[k])]
    \o (IF Len(es) > Len(layout.edges) THEN <<[d |-> <<>>, marker |-> FALSE]>> ELSE <<>>)

EdgesThrow(es, layout) == Len(es) > Len(layout.edges)

\* _setGraphSize taking the extent of the last node instead of the maximum
SetGraphSizeOfLastNode(children, oldEl) ==
    LET last == children[Len(children)]
        maxHeight == Num(last.y + last.height)
        maxWidth  == Num(last.x + last.width)
    IN  <<[width |-> StylePx(oldEl.width, maxWidth), height |-> StylePx(oldEl.height, maxHeight)],
          [width |-> Attr(maxWidth), height |-> Attr(maxHeight)]>>

\* _setGraphSize(nodes): <<style of this._el, attributes of this._svg>>
SetGraphSize(children, oldEl) ==
    LET maxHeight == MathMax({children[i].y + children[i].height : i \in DOMAIN children})
        maxWidth  == MathMax({children[i].x + children[i].width : i \in DOMAIN children})
    IN  <<[width |-> StylePx(oldEl.width, maxWidth), height |-> StylePx(oldEl.height, maxHeight)],
          [width |-> Attr(maxWidth), height |-> Attr(maxHeight)]>>

\* The callback with setData handing out the engine's own promise, which resolves when
\* the layout is delivered, whatever becomes of the callback
ApplyLayoutResolvingAtDelivery(i, layout) ==
    /\ i \in DOMAIN pending
    /\ layout \in LayoutResults(pending[i])
    /\ pending' = RemoveAt(pending, i)
    /\ el' = el \o NodesDrawn(nodes, layout)
    /\ IF NodesThrow(nodes, layout)
       THEN /\ thrown' = TypeError
            /\ UNCHANGED <<paths, elSize, svgSize>>
       ELSE /\ paths' = paths \o RenderEdges(edges, layout)
            /\ IF EdgesThrow(edges, layout)
               THEN /\ thrown' = TypeError
                    /\ UNCHANGED <<elSize, svgSize>>
               ELSE /\ thrown' = NoError
                    /\ elSize' = SetGraphSize(layout.children, elSize)[1]
                    /\ svgSize' = SetGraphSize(layout.children, elSize)[2]
    /\ lastCall' = Call("layout", "", FALSE, "resolved")
    /\ fired' = <<>>
    /\ UNCHANGED <<lifeVars, mounted, nodes, edges, interVars, overlapped>>

(* The then-callback of _renderNodes, run when request i is answered with layout. The *)
(* handle that setData returned for the request is the promise of this callback: it   *)
(* resolves when the callback returns and rejects when it throws.                     *)
ApplyLayout(i, layout) ==
    /\ i \in DOMAIN pending
    /\ layout \in LayoutResults(pending[i])
    /\ pending' = RemoveAt(pending, i)
    /\ el' = el \o NodesDrawn(nodes, layout)
    /\ IF NodesThrow(nodes, layout)
       THEN /\ thrown' = TypeError
            /\ UNCHANGED <<paths, elSize, svgSize>>
       ELSE /\ paths' = paths \o RenderEdges(edges, layout)
            /\ IF EdgesThrow(edges, layout)
               THEN /\ thrown' = TypeError
                    /\ UNCHANGED <<elSize, svgSize>>
               ELSE /\ thrown' = NoError
                    /\ elSize' = SetGraphSize(layout.children, elSize)[1]
                    /\ svgSize' = SetGraphSize(layout.children, elSize)[2]
    /\ lastCall' = Call("layout", "", FALSE, IF thrown' = NoError THEN "resolved" ELSE "rejected")
    /\ fired' = <<>>
    /\ UNCHANGED <<lifeVars, mounted, nodes, edges, interVars, overlapped>>

(* The layout engine fails request i: the callback never runs and the handle rejects *)
LayoutReject(i) ==
    /\ i \in DOMAIN pending
    /\ pending' = RemoveAt(pending, i)
    /\ lastCall' = Call("layoutFailed", "", FALSE, "rejected")
    /\ thrown' = NoError
    /\ fired' = <<>>
    /\ UNCHANGED <<lifeVars, domVars, nodes, edges, interVars, overlapped>>

----------------------------------------------------------------------------
(* Interaction *)

\* selectNode that marks the node without unmarking the one marked before
SelectNodeWithoutUnselect(nodeName, selected) ==
    LET i == ElementById(Doc, nodeName)
        cleared == UnselectFirst(Doc)
    IN  /\ lastCall' = Call("selectNode", nodeName, selected, "null")
        /\ fired' = <<>>
        /\ IF i = 0
           THEN /\ thrown' = NoNodeError(nodeName)
                /\ UNCHANGED <<el, selectedNodeName>>
           ELSE /\ thrown' = NoError
                /\ IF selected
                   THEN /\ el' = [Doc EXCEPT ![i].selected = TRUE]
                        /\ selectedNodeName' = nodeName
                   ELSE /\ el' = cleared
                        /\ UNCHANGED selectedNodeName
        /\ UNCHANGED <<lifeVars, mounted, paths, elSize, svgSize, dataVars, dragging,
                       mouseDownBB, down, overlapped>>

\* selectNode that unmarks the selected node before it looks the name up
SelectNodeUnselectingFirst(nodeName, selected) ==
    LET i == ElementById(Doc, nodeName)
        cleared == UnselectFirst(Doc)
    IN  /\ lastCall' = Call("selectNode", nodeName, selected, "null")
        /\ fired' = <<>>
        /\ IF i = 0
           THEN /\ thrown' = NoNodeError(nodeName)
                /\ el' = IF mounted.el THEN cleared ELSE el
                /\ UNCHANGED selectedNodeName
           ELSE /\ thrown' = NoError
                /\ IF selected
                   THEN /\ el' = [cleared EXCEPT ![i].selected = TRUE]
                        /\ selectedNodeName' = nodeName
                   ELSE /\ el' = cleared
                        /\ UNCHANGED selectedNodeName
        /\ UNCHANGED <<lifeVars, mounted, paths, elSize, svgSize, dataVars, dragging,
                       mouseDownBB, down, overlapped>>

(* selectNode(nodeName, selected) *)
SelectNode(nodeName, selected) ==
    LET i == ElementById(Doc, nodeName)
        cleared == UnselectFirst(Doc)
    IN  /\ lastCall' = Call("selectNode", nodeName, selected, "null")
        /\ fired' = <<>>
        /\ IF i = 0
           THEN /\ thrown' = NoNodeError(nodeName)
                /\ UNCHANGED <<el, selectedNodeName>>
           ELSE /\ thrown' = NoError
                /\ IF selected
                   THEN /\ el' = [cleared EXCEPT ![i].selected = TRUE]
                        /\ selectedNodeName' = nodeName
                   ELSE /\ el' = cleared
                        /\ UNCHANGED selectedNodeName
        /\ UNCHANGED <<lifeVars, mounted, paths, elSize, svgSize, dataVars, dragging,
                       mouseDownBB, down, overlapped>>

\* highlightNode that marks the node without unmarking the one marked before
HighlightNodeWithoutUnhighlight(nodeName, highlighted, ev) ==
    LET i == ElementById(Doc, nodeName)
        cleared == UnhighlightFirst(Doc)
    IN  IF Truthy(dragging) /\ ev = "noevent"
        THEN /\ thrown' = TypeError
             /\ fired' = <<>>
             /\ UNCHANGED el
        ELSE IF Truthy(dragging) /\ ev = "path"
        THEN /\ thrown' = NoError
             /\ fired' = <<>>
             /\ UNCHANGED el
        ELSE /\ thrown' = NoError
             /\ fired' = <<<<"nodeHighlight", nodeName, highlighted>>>>
             /\ IF ~mounted.el
                THEN UNCHANGED el
                ELSE IF highlighted /\ i # 0
                THEN el' = [Doc EXCEPT ![i].highlighted = TRUE]
                ELSE el' = cleared

\* highlightNode that fires the event only when it sets the highlight
HighlightNodeSilentOnClear(nodeName, highlighted, ev) ==
    LET i == ElementById(Doc, nodeName)
        cleared == UnhighlightFirst(Doc)
    IN  IF Truthy(dragging) /\ ev = "noevent"
        THEN /\ thrown' = TypeError
             /\ fired' = <<>>
             /\ UNCHANGED el
        ELSE IF Truthy(dragging) /\ ev = "path"
        THEN /\ thrown' = NoError
             /\ fired' = <<>>
             /\ UNCHANGED el
        ELSE /\ thrown' = NoError
             /\ fired' = IF highlighted THEN <<<<"nodeHighlight", nodeName, highlighted>>>> ELSE <<>>
             /\ IF ~mounted.el
                THEN UNCHANGED el
                ELSE IF highlighted /\ i # 0
                THEN el' = [cleared EXCEPT ![i].highlighted = TRUE]
                ELSE el' = cleared

\* The body of highlightNode under the event d3.event: ev is "noevent" when no event is
\* being dispatched (d3.event is null), else the tag of d3.event.relatedTarget
HighlightNode(nodeName, highlighted, ev) ==
    LET i == ElementById(Doc, nodeName)
        cleared == UnhighlightFirst(Doc)
    IN  IF Truthy(dragging) /\ ev = "noevent"
        THEN /\ thrown' = TypeError           \* d3.event.relatedTarget of null
             /\ fired' = <<>>
             /\ UNCHANGED el
        ELSE IF Truthy(dragging) /\ ev = "path"
        THEN /\ thrown' = NoError
             /\ fired' = <<>>
             /\ UNCHANGED el
        ELSE /\ thrown' = NoError
             /\ fired' = <<<<"nodeHighlight", nodeName, highlighted>>>>
             /\ IF ~mounted.el
                THEN UNCHANGED el
                ELSE IF highlighted /\ i # 0
                THEN el' = [cleared EXCEPT ![i].highlighted = TRUE]
                ELSE el' = cleared

(* highlightNode(nodeName, highlighted) called by the embedder *)
HighlightNodeCall(nodeName, highlighted) ==
    /\ HighlightNode(nodeName, highlighted, "noevent")
    /\ lastCall' = Call("highlightNode", nodeName, highlighted, "null")
    /\ UNCHANGED <<lifeVars, mounted, paths, elSize, svgSize, dataVars, interVars, overlapped>>

(* mouseover on the node visual of nodeName, coming from relatedTarget rt *)
MouseOver(nodeName, rt) ==
    /\ ElementById(Doc, nodeName) # 0
    /\ HighlightNode(nodeName, TRUE, rt)
    /\ lastCall' = Call("mouseover", nodeName, TRUE, rt)
    /\ UNCHANGED <<lifeVars, mounted, paths, elSize, svgSize, dataVars, interVars, overlapped>>

(* mouseout on the node visual of nodeName, going to relatedTarget rt *)
MouseOut(nodeName, rt) ==
    /\ ElementById(Doc, nodeName) # 0
    /\ HighlightNode(nodeName, FALSE, rt)
    /\ lastCall' = Call("mouseout", nodeName, FALSE, rt)
    /\ UNCHANGED <<lifeVars, mounted, paths, elSize, svgSize, dataVars, interVars, overlapped>>

(* _onMouseDown(nodeName), from a mousedown on the node visual *)
OnMouseDown(nodeName) ==
    /\ ElementById(Doc, nodeName) # 0
    /\ dragging' = "true"
    /\ mouseDownBB' = <<BoundingClientRect(Doc, nodeName)>>
    /\ down' = [name |-> nodeName,
                top |-> BoundingClientRect(Doc, nodeName).top,
                left |-> BoundingClientRect(Doc, nodeName).left]
    /\ lastCall' = Call("mousedown", nodeName, FALSE, "null")
    /\ thrown' = NoError
    /\ fired' = <<>>
    /\ UNCHANGED <<lifeVars, domVars, dataVars, selectedNodeName, overlapped>>

\* _onMouseUp comparing the top of the two boxes only
OnMouseUpComparingTop(nodeName) ==
    /\ ElementById(Doc, nodeName) # 0
    /\ LET bb == BoundingClientRect(Doc, nodeName)
       IN  IF mouseDownBB # <<>> /\ mouseDownBB[1].top = bb.top
           THEN fired' = <<<<"nodeClick", nodeName>>>>
           ELSE fired' = <<>>
    /\ dragging' = "false"
    /\ down' = NoDown
    /\ lastCall' = Call("mouseup", nodeName, down.name = nodeName,
                        IF down.name # nodeName THEN "null"
                        ELSE IF BoundingClientRect(Doc, nodeName) = [top |-> down.top, left |-> down.left]
                        THEN "same" ELSE "moved")
    /\ thrown' = NoError
    /\ UNCHANGED <<lifeVars, domVars, dataVars, selectedNodeName, mouseDownBB, overlapped>>

\* _onMouseUp clearing the dragging flag only when it classifies a click
OnMouseUpKeepingDragOnMove(nodeName) ==
    /\ ElementById(Doc, nodeName) # 0
    /\ LET bb == BoundingClientRect(Doc, nodeName)
       IN  IF mouseDownBB # <<>> /\ mouseDownBB[1].top = bb.top /\ mouseDownBB[1].left = bb.left
           THEN fired' = <<<<"nodeClick", nodeName>>>> /\ dragging' = "false"
           ELSE fired' = <<>> /\ UNCHANGED dragging
    /\ down' = NoDown
    /\ lastCall' = Call("mouseup", nodeName, down.name = nodeName,
                        IF down.name # nodeName THEN "null"
                        ELSE IF BoundingClientRect(Doc, nodeName) = [top |-> down.top, left |-> down.left]
                        THEN "same" ELSE "moved")
    /\ thrown' = NoError
    /\ UNCHANGED <<lifeVars, domVars, dataVars, selectedNodeName, mouseDownBB, overlapped>>

(* _onMouseUp(nodeName), from a mouseup on the node visual *)
OnMouseUp(nodeName) ==
    /\ ElementById(Doc, nodeName) # 0
    /\ LET bb == BoundingClientRect(Doc, nodeName)
       IN  IF mouseDownBB # <<>> /\ mouseDownBB[1].top = bb.top /\ mouseDownBB[1].left = bb.left
           THEN fired' = <<<<"nodeClick", nodeName>>>>
           ELSE fired' = <<>>
    /\ dragging' = "false"
    /\ down' = NoDown
    /\ lastCall' = Call("mouseup", nodeName, down.name = nodeName,
                        IF down.name # nodeName THEN "null"
                        ELSE IF BoundingClientRect(Doc, nodeName) = [top |-> down.top, left |-> down.left]
                        THEN "same" ELSE "moved")
    /\ thrown' = NoError
    /\ UNCHANGED <<lifeVars, domVars, dataVars, selectedNodeName, mouseDownBB, overlapped>>

----------------------------------------------------------------------------
(* The environment: the embedder constructs one widget, renders it once and calls  *)
(* nothing on it after destroy; the user's pointer reaches the attached visuals.   *)

Alive == elk = "created" /\ observable = "alive"

\* Room for the paths that the requests in flight after setData(data) can still draw
PathsFit(data) == Len(paths) + (Len(pending) + 1) * Len(data.edges) <= MaxPaths

Next ==
    \/ \E options \in Options : observable = "undefined" /\ Constructor(options)
    \/ Alive /\ container = "null" /\ Render
    \/ Alive /\ Destroy
    \/ \E data \in DataSets :
          Alive /\ Len(pending) < MaxPending /\ PathsFit(data) /\ SetData(data)
    \/ \E i \in DOMAIN pending : \E layout \in LayoutResults(pending[i]) : ApplyLayout(i, layout)
    \/ \E i \in DOMAIN pending : LayoutReject(i)
    \/ \E n \in Names, sel \in BOOLEAN : Alive /\ SelectNode(n, sel)
    \/ \E n \in Names, h \in BOOLEAN : Alive /\ HighlightNodeCall(n, h)
    \/ \E n \in Names, rt \in RelatedTargets : Alive /\ MouseOver(n, rt)
    \/ \E n \in Names, rt \in RelatedTargets : Alive /\ MouseOut(n, rt)
    \/ \E n \in Names : Alive /\ OnMouseDown(n)
    \/ \E n \in Names : Alive /\ OnMouseUp(n)

Spec == Init /\ [][Next]_vars

----------------------------------------------------------------------------
(* _getElkGraph on its own: the request built from any node list and edge list, *)
(* names repeated and edges between any two names included                      *)

SeqsUpTo(S, n) == UNION {[1..k -> S] : k \in 0..n}

GraphNames == {"A", "B", "C"}
GraphNodeLists == SeqsUpTo([name : GraphNames], MaxGraphNodes)
GraphEdgeLists == SeqsUpTo([start : GraphNames, end : GraphNames, type : {"arrow"}], MaxGraphEdges)

\* A rendered widget holding the lists that some setData stored
InitGraph ==
    /\ elk = "created"
    /\ container = "target"
    /\ observable = "alive"
    /\ mounted = [svg |-> TRUE, group |-> TRUE, el |-> TRUE]
    /\ el = <<>>
    /\ paths = <<>>
    /\ elSize = [width |-> <<>>, height |-> <<>>]
    /\ svgSize = [width |-> <<>>, height |-> <<>>]
    /\ nodes \in GraphNodeLists
    /\ edges \in GraphEdgeLists
    /\ pending = <<>>
    /\ selectedNodeName = "undefined"
    /\ dragging = "undefined"
    /\ mouseDownBB = <<>>
    /\ down = NoDown
    /\ overlapped = FALSE
    /\ lastCall = Call("lists", "", FALSE, "null")
    /\ thrown = NoError
    /\ fired = <<>>

(* const graph = this._getElkGraph() *)
BuildGraph ==
    /\ pending = <<>>
    /\ pending' = <<GetElkGraph(nodes, edges)>>
    /\ lastCall' = Call("_getElkGraph", "", FALSE, "null")
    /\ thrown' = NoError
    /\ fired' = <<>>
    /\ UNCHANGED <<lifeVars, domVars, nodes, edges, interVars, overlapped>>

NextGraph == BuildGraph

SpecGraph == InitGraph /\ [][NextGraph]_vars

----------------------------------------------------------------------------
(* Properties *)

SelectedVisuals == {i \in DOMAIN el : el[i].selected}
HighlightedVisuals == {i \in DOMAIN el : el[i].highlighted}
Rendered(name) == ElementById(Doc, name) # 0

\* A layout completion in a run where no setData was issued while a layout was in flight
SequentialCompletion == lastCall.op = "layout" /\ ~overlapped

\* C1: when every setData waits for the layout of the one before, the completion of a
\* call leaves exactly one node visual per node of its dataset in the overlay, in
\* order, and none of an earlier dataset.
C1_NodeVisualsOfLastDataset ==
    SequentialCompletion =>
        /\ thrown = NoError
        /\ Len(el) = Len(nodes)
        /\ \A k \in DOMAIN el : el[k].id = nodes[k].name

\* A one-node dataset drawn after a two-node dataset (whose edge path is still there)
C1_Witness ==
    /\ SequentialCompletion
    /\ Len(nodes) = 1
    /\ Len(el) = 1
    /\ paths # <<>>

\* C2: when every setData waits for the layout of the one before, the completion of a
\* call leaves exactly one path visual per edge of its dataset in the drawing surface.
C2_EdgeVisualsOfLastDataset ==
    SequentialCompletion => Len(paths) = Len(edges)

\* C3: setData on a widget that was never rendered throws "Diagram is not rendered"
\* and changes neither the lists, the visuals, the interaction state nor the requests
\* in flight.
C3_SetDataBeforeRender ==
    [][(lastCall'.op = "setData" /\ container # "target") =>
          /\ thrown' = NotRenderedError
          /\ UNCHANGED <<nodes, edges, pending, mounted, el, paths, elSize, svgSize,
                         selectedNodeName, dragging, mouseDownBB>>]_vars

C3_Witness ==
    /\ lastCall.op = "setData"
    /\ container = "null"
    /\ thrown = NotRenderedError
    /\ pending = <<>>

\* C4: at most one node visual carries the selected marker, and after a successful
\* selectNode(B, true) it is the visual of B, whichever node carried it before.
C4_SingleSelection ==
    /\ Cardinality(SelectedVisuals) <= 1
    /\ (lastCall.op = "selectNode" /\ lastCall.flag /\ thrown = NoError) =>
          SelectedVisuals = {ElementById(Doc, lastCall.name)}

\* selectNode(B, true) on a widget showing A and B whose remembered selection was made
\* on another visual: B is marked, A is not
C4_Witness ==
    /\ lastCall = Call("selectNode", "B", TRUE, "null")
    /\ thrown = NoError
    /\ Rendered("A")
    /\ SelectedVisuals = {ElementById(Doc, "B")}
    /\ ~el[ElementById(Doc, "A")].selected

\* C5: selectNode with a name that has no node visual, with either flag, throws the
\* "doesn't exist" error and leaves the marked visual and selectedNodeName as they were.
C5_SelectMissingNode ==
    [][(lastCall'.op = "selectNode" /\ ~Rendered(lastCall'.name)) =>
          /\ thrown' = NoNodeError(lastCall'.name)
          /\ el' = el
          /\ selectedNodeName' = selectedNodeName]_vars

\* selectNode("B", ...) failed while A is shown, marked and remembered as the selection
C5_Witness ==
    /\ lastCall.op = "selectNode"
    /\ lastCall.name = "B"
    /\ thrown = NoNodeError("B")
    /\ selectedNodeName = "A"
    /\ SelectedVisuals # {}

\* C6: a mouseup on the node of the mousedown before it fires exactly one nodeClick
\* with the node's name when the node's box has the top and left it had at the
\* mousedown, and fires nothing when the box has moved.
C6_ClickOrDrag ==
    (lastCall.op = "mouseup" /\ lastCall.flag) =>
        fired = IF lastCall.info = "same" THEN <<<<"nodeClick", lastCall.name>>>> ELSE <<>>

\* The drag: the box moved between mousedown and mouseup and nothing was fired
C6_Witness ==
    /\ lastCall.op = "mouseup"
    /\ lastCall.flag
    /\ lastCall.info = "moved"
    /\ fired = <<>>

\* C7: at most one node visual carries the highlighted marker.
C7_SingleHighlight == Cardinality(HighlightedVisuals) <= 1

\* The pointer came over B while A is shown too: B alone is highlighted
C7_Witness ==
    /\ lastCall.op = "mouseover"
    /\ lastCall.name = "B"
    /\ Rendered("A")
    /\ HighlightedVisuals = {ElementById(Doc, "B")}

\* The hover the drag rule suppresses: the dragging flag is set and the related target
\* is a path element
Suppressed == Truthy(dragging) /\ lastCall.info = "path"

C9_TightExtent ==
    [][(lastCall'.op = "layout" /\ thrown' = NoError) =>
          \E i \in DOMAIN pending : \E layout \in LayoutResults(pending[i]) :
              /\ pending' = RemoveAt(pending, i)
              /\ \E c \in DOMAIN layout.children, r \in DOMAIN layout.children :
                     LET w == layout.children[c].x + layout.children[c].width
                         h == layout.children[r].y + layout.children[r].height
                     IN  /\ \A k \in DOMAIN layout.children :
                               /\ layout.children[k].x + layout.children[k].width <= w
                               /\ layout.children[k].y + layout.children[k].height <= h
                         /\ elSize' = [width |-> <<w, "px">>, height |-> <<h, "px">>]
                         /\ svgSize' = [width |-> <<Num(w)>>, height |-> <<Num(h)>>]]_vars

\* Two nodes drawn: the widest extent is the first node's, the tallest the second's
C9_Witness ==
    /\ lastCall.op = "layout"
    /\ thrown = NoError
    /\ Len(el) = 2
    /\ elSize = [width |-> <<el[1].left + el[1].width, "px">>,
                 height |-> <<el[2].top + el[2].height, "px">>]
    /\ el[1].left > el[2].left
    /\ el[2].top > el[1].top

\* C10: the path drawn for an edge by a callback that returns carries the marker
\* exactly when the edge's type is "arrow", and in a run without overlapping setData
\* calls the callback returns whatever the types are.
C10_MarkerIffArrow ==
    [][lastCall'.op = "layout" =>
          /\ ~overlapped => thrown' = NoError
          /\ thrown' = NoError =>
                /\ Len(paths') = Len(paths) + Len(edges)
                /\ \A k \in DOMAIN edges :
                      paths'[Len(paths) + k].marker <=> (edges[k].type = "arrow")]_vars

\* An edge of an unrecognized type drawn without a marker
C10_Witness ==
    /\ lastCall.op = "layout"
    /\ thrown = NoError
    /\ edges # <<>>
    /\ edges[1].type = "dashed"
    /\ paths # <<>>
    /\ ~paths[Len(paths)].marker

\* C11: whenever the callback of a layout result runs, this._nodes and this._edges are
\* the lists its request was built from, whatever setData calls and completions came
\* in between.
C11_ListsOfTheRequest ==
    [][\A i \in DOMAIN pending : \A layout \in LayoutResults(pending[i]) :
          ApplyLayout(i, layout) => pending[i] = GetElkGraph(nodes, edges)]_vars

\* C12: once destroy() has run, neither the svg, nor its group, nor the overlay is
\* attached under the target, then and ever after.
C12_NothingLeftMounted ==
    observable = "destroyed" => (~mounted.svg /\ ~mounted.group /\ ~mounted.el)

\* C13: a construction whose options carry no elkWorkerUrl, the options object being
\* absent included, throws "ELK worker URL has to be specified" and creates no engine.
C13_MissingWorkerUrl ==
    [][\A options \in Options :
          (Constructor(options) /\ options.elkWorkerUrl = "") =>
              (thrown' = NoWorkerUrlError /\ elk' = "undefined")]_vars

C15_NoCancellation ==
    [][IF lastCall'.op = "setData" /\ thrown' = NoError
       THEN /\ Len(pending') = Len(pending) + 1
            /\ SubSeq(pending', 1, Len(pending)) = pending
            /\ pending'[Len(pending')].children =
                   [k \in DOMAIN nodes' |-> [id |-> nodes'[k].name, width |-> 200, height |-> 50]]
       ELSE IF lastCall'.op \in {"layout", "layoutFailed"}
       THEN /\ \E i \in DOMAIN pending : pending' = RemoveAt(pending, i)
            /\ SubSeq(el', 1, Len(el)) = el
            /\ SubSeq(paths', 1, Len(paths)) = paths
            /\ lastCall'.op = "layout" => Len(el') > Len(el)
       ELSE pending' = pending]_vars

\* The later of two overlapping requests was answered first and has been applied; the
\* earlier one, built from other lists, is still in flight
C15_Witness ==
    /\ lastCall.op = "layout"
    /\ overlapped
    /\ Len(pending) = 1
    /\ Len(pending[1].children) # Len(nodes)
    /\ el # <<>>

\* C16: highlightNode, run by a hover handler or called by the embedder, changes no
\* marker and fires nothing when the dragging flag is set and the related target of
\* the pointer event is a path element; in every other case it goes on to fire
\* nodeHighlight with its arguments.
C16_SuppressedOnlyByDragRule ==
    [][lastCall'.op \in {"mouseover", "mouseout", "highlightNode"} =>
          IF Truthy(dragging) /\ lastCall'.info = "path"
          THEN el' = el /\ fired' = <<>>
          ELSE fired' = <<<<"nodeHighlight", lastCall'.name, lastCall'.flag>>>>]_vars

\* C17: the request built from the lists has one child per node, in list order, with
\* the node's name as id, width 200 and height 50; one edge per edge, in list order,
\* with id "edge_" + zero-based index and the edge's start and end as its only source
\* and only target; and the properties algorithm "layered", direction "RIGHT".
C17_LayoutRequest ==
    lastCall.op = "_getElkGraph" =>
        LET graph == pending[1]
        IN  /\ graph.properties = [algorithm |-> "layered", direction |-> "RIGHT"]
            /\ Len(graph.children) = Len(nodes)
            /\ \A k \in DOMAIN nodes :
                  graph.children[k] = [id |-> nodes[k].name, width |-> 200, height |-> 50]
            /\ Len(graph.edges) = Len(edges)
            /\ \A k \in DOMAIN edges :
                  graph.edges[k] = [id |-> <<"edge_", k - 1>>,
                                    sources |-> <<edges[k].start>>,
                                    targets |-> <<edges[k].end>>]

\* A request of three nodes and two different edges
C17_Witness ==
    /\ lastCall.op = "_getElkGraph"
    /\ Len(nodes) = 3
    /\ Len(edges) = 2
    /\ edges[1] # edges[2]
    /\ pending[1].edges[2].id = <<"edge_", 1>>
    /\ pending[1].edges[2].sources = <<edges[2].start>>

\* C18: highlightNode with a name that has no node visual throws, changes no marker
\* and fires nothing.
C18_HighlightMissingNode ==
    [][(lastCall'.op = "highlightNode" /\ ~Rendered(lastCall'.name)) =>
          (thrown' # NoError /\ el' = el /\ fired' = <<>>)]_vars

\* C19: the dragging flag is false after every mouseup on a node, click or drag, and
\* it is true exactly while a mousedown on a node has not been followed by a mouseup
\* on a node, whatever else is called in between.
C19_DraggingFlag ==
    /\ lastCall.op = "mouseup" => dragging = "false"
    /\ Truthy(dragging) <=> down # NoDown

\* A mouseup classified as a drag: nothing fired, the flag cleared
C19_Witness ==
    /\ lastCall.op = "mouseup"
    /\ lastCall.info = "moved"
    /\ fired = <<>>
    /\ dragging = "false"
    /\ mouseDownBB # <<>>

\* C20: a mouseup that does not follow a mousedown on its own node, with no mouseup in
\* between, fires no nodeClick.
C20_ClickOnlyAfterMouseDown ==
    (lastCall.op = "mouseup" /\ ~lastCall.flag) => fired = <<>>

====
